---- MODULE Spec2Model ----
(***************************************************************************)
(* Bounded conversation history of GeminiChat: the per-session message log *)
(* kept in Redis by GeminiChatManager (src/chat_manager.py) and by the     *)
(* module-level twin functions of src/chat_memory.py.                      *)
(*                                                                         *)
(* Several request handlers run concurrently and share one Redis server.   *)
(* A step of the model is one Redis round trip (a single command, or one   *)
(* MULTI/EXEC transaction) or the return of the Gemini call, together with *)
(* the local computation of the handler that surrounds it.                 *)
(***************************************************************************)
EXTENDS Integers, Sequences, FiniteSets, TLC

VARIABLES
    R,       \* self.R: "client" when the PING at construction succeeded, "None" otherwise
    redis,   \* the Redis server's data: key -> list of stored strings (absent key = empty list)
    call,    \* handler -> the invocation it is running or has just finished
    served,  \* handler -> number of invocations it has started
    reachable, \* whether the Redis server answers the client's commands now
    client,  \* main.py's module-level Gemini client: "client", or "None" when the key load failed
    codec    \* a list of messages taken through _serialize_content and _deserialize_content

vars == <<R, redis, call, served, reachable, client, codec>>

\* What the public methods of the manager never assign.
env == <<reachable, client, codec>>

-----------------------------------------------------------------------------
(* Bounds of the model *)

\* Invocations the handlers may start, all together.
MaxCalls == 3

Handlers == {"h1", "h2"}
SessionIds == {"s1", "s2"}

\* Prompts and Gemini answers are drawn per handler, so that an entry of the log
\* tells which invocation wrote it.
PromptsOf(h) == IF h = "h1" THEN {"hello"} ELSE {"bom dia"}
ResponsesOf(h) == IF h = "h1" THEN {"hi, how can I help?"} ELSE {"em que posso ajudar?"}

-----------------------------------------------------------------------------
(* Values *)

MAX_MESSAGES == 20

\* Python's None, as the text of a Part or of a JSON "text" member (null).
None == "<None>"
\* A JSON part object that has no "text" member.
Absent == "<absent>"

\* text_part = content.parts[0].text if content.parts and content.parts[0].text else ""
Truthy(t) == t # None /\ t # ""

\* Content(role=..., parts=[Part(text=...), ...]); a part is represented by its text.
Content(role, texts) == [role |-> role, parts |-> texts]

\* A stored string.  json = FALSE is a string json.loads rejects; otherwise the
\* string is the JSON object {"role": role, "parts": [{"text": t}, ...]}, a part
\* without "text" member being Absent.
JsonDumps(msg_data) == [json |-> TRUE, role |-> msg_data.role, parts |-> msg_data.parts]
NotJson == [json |-> FALSE, role |-> "", parts |-> <<>>]

\* f"chat:{session_id}"
RedisKey(session_id) == <<"chat:", session_id>>
Keys == {RedisKey(s) : s \in SessionIds}

-----------------------------------------------------------------------------
(* Message codec *)

\* Variant: the truthiness test reversed, so that a present text is stored as "".
SerializeOneNoText(content) ==
    LET text_part == IF Len(content.parts) > 0 /\ Truthy(content.parts[1])
                     THEN "" ELSE content.parts[1]
    IN  JsonDumps([role |-> content.role, parts |-> <<text_part>>])

SerializeOne(content) ==
    LET text_part == IF Len(content.parts) > 0 /\ Truthy(content.parts[1])
                     THEN content.parts[1] ELSE ""
    IN  JsonDumps([role |-> content.role, parts |-> <<text_part>>])

_serialize_content(contents) == [i \in DOMAIN contents |-> SerializeOne(contents[i])]

\* json.loads(item) raises JSONDecodeError; part["text"] raises KeyError.
DecodeRaises(item) ==
    \/ ~item.json
    \/ \E p \in DOMAIN item.parts : item.parts[p] = Absent

DeserializeRaises(serialized_history) ==
    \E i \in DOMAIN serialized_history : DecodeRaises(serialized_history[i])

DeserializeOne(item) == Content(item.role, item.parts)

\* Variant: history.insert(0, content) instead of history.append(content).
DeserializeReversed(serialized_history) ==
    [i \in DOMAIN serialized_history |->
        DeserializeOne(serialized_history[Len(serialized_history) + 1 - i])]

\* Defined when DeserializeRaises is false.
_deserialize_content(serialized_history) ==
    [i \in DOMAIN serialized_history |-> DeserializeOne(serialized_history[i])]

-----------------------------------------------------------------------------
(* Redis list commands *)

Max(a, b) == IF a >= b THEN a ELSE b
Min(a, b) == IF a <= b THEN a ELSE b

\* Variant: negative indices taken one place too far to the right.
IndexOffByOne(len, i) == IF i < 0 THEN len + i + 1 ELSE i

\* Redis index arithmetic: a negative index counts from the tail.
Index(len, i) == IF i < 0 THEN len + i ELSE i

\* LRANGE key start stop
LRange(list, start, stop) ==
    LET len == Len(list)
        lo  == Max(Index(len, start), 0)
        hi  == Min(Index(len, stop), len - 1)
    IN  IF lo > hi THEN <<>> ELSE SubSeq(list, lo + 1, hi + 1)

\* Variant: LPUSH key item..., which puts each item at the head.
LPush(list, items) == [i \in 1..Len(items) |-> items[Len(items) + 1 - i]] \o list

\* Variant: RPUSHX key item..., which appends only to a list that exists.
RPushX(list, items) == IF list = <<>> THEN list ELSE list \o items

\* RPUSH key item...
RPush(list, items) == list \o items

\* LTRIM key start stop
LTrim(list, start, stop) == LRange(list, start, stop)

\* Variant: "if deleted_count >= 0", i.e. a count that always passes the test.
DelCountOne(list) == 1

\* DEL key: the number of keys removed; Redis keeps no key for an empty list.
DelCount(list) == IF Len(list) > 0 THEN 1 ELSE 0

-----------------------------------------------------------------------------
(* Logs the sessions may hold when the handlers start *)

UserText == <<"u1", "u2", "u3", "u4", "u5", "u6", "u7", "u8", "u9", "u10">>
ModelText == <<"m1", "m2", "m3", "m4", "m5", "m6", "m7", "m8", "m9", "m10">>

Stored(role, text) == JsonDumps([role |-> role, parts |-> <<text>>])

\* The log n complete exchanges leave: user, model, user, model, ...
Exchanges(n) ==
    [i \in 1..(2 * n) |->
        IF i % 2 = 1 THEN Stored("user", UserText[(i + 1) \div 2])
                     ELSE Stored("model", ModelText[i \div 2])]

InitLogs ==
    { <<>>,
      Exchanges(1),
      Exchanges(9),
      Exchanges(10),
      Tail(Exchanges(10)),
      <<Stored("system", "be brief")>> \o Exchanges(1) \o <<Stored("system", "")>>,
      <<Stored("user", None), JsonDumps([role |-> "model", parts |-> <<>>])>>,
      <<Stored("user", "u1"), NotJson>>,
      <<Stored("user", "u1"), Stored("model", Absent)>> }

-----------------------------------------------------------------------------
(* Handlers *)

\* pc: "idle" before the first invocation; "submitted" while generate_content is
\* in flight; "executing" while the pipeline's commands are on their way to Redis;
\* "returned" and "raised" when the invocation has ended.
\* trace: the Redis commands and Gemini calls the invocation has issued, in order.
NoCall ==
    [pc |-> "idle", op |-> "none", session_id |-> "", new_prompt |-> "",
     serialized_history |-> <<>>, contents_to_send |-> <<>>,
     response_text |-> "", queue |-> <<>>, result |-> "", trace |-> <<>>]

NewCall(op, session_id) == [NoCall EXCEPT !.op = op, !.session_id = session_id]

\* Variant: the None check left out.
StoreIsNoneUnchecked == FALSE

\* Variant: the test also asks whether Redis answers now (a PING on every call).
StoreIsNoneOrDown == R = "None" \/ ~reachable

\* "if self.R is None": the degraded mode.
StoreIsNone == R = "None"

Finished(h) == call[h].pc \in {"idle", "returned", "raised"}

RECURSIVE Total(_, _)
Total(f, S) == IF S = {} THEN 0 ELSE LET x == CHOOSE y \in S : TRUE
                                   IN  f[x] + Total(f, S \ {x})

CanStart(h) == Finished(h) /\ Total(served, Handlers) < MaxCalls

NoCodec == [stage |-> "none", contents |-> <<>>, serialized |-> <<>>, decoded |-> <<>>]

\* __init__: self.R is the client exactly when the PING succeeded.  The Redis
\* server stays as it was at construction.
Init ==
    /\ R \in {"client", "None"}
    /\ redis \in [Keys -> InitLogs]
    /\ call = [h \in Handlers |-> NoCall]
    /\ served = [h \in Handlers |-> 0]
    /\ reachable = (R = "client")
    /\ client = "client"
    /\ codec = NoCodec

-----------------------------------------------------------------------------
(* GeminiChatManager.send_message *)

ServiceUnavailable == "Erro de Servico: O banco de dados Redis nao esta acessivel."

\* Variant: no role filter.
FilterRolesOff(history) == history

\* history = [item for item in history if item.role in ["user", "model"]]
FilterRoles(history) == SelectSeq(history, LAMBDA item : item.role \in {"user", "model"})

\* Variant: ltrim(redis_key, -(MAX_MESSAGES - 1), -1), which keeps one entry less.
PipelineCommandsTrimShort(new_history_items) ==
    << [cmd |-> "RPUSH", items |-> new_history_items, start |-> 0, stop |-> 0],
       [cmd |-> "LTRIM", items |-> <<>>, start |-> 0 - (MAX_MESSAGES - 1), stop |-> 0 - 1] >>

\* Variant: ltrim(redis_key, 0, MAX_MESSAGES - 1), which keeps the head of the list.
PipelineCommandsKeepHead(new_history_items) ==
    << [cmd |-> "RPUSH", items |-> new_history_items, start |-> 0, stop |-> 0],
       [cmd |-> "LTRIM", items |-> <<>>, start |-> 0, stop |-> MAX_MESSAGES - 1] >>

\* The commands of "with self.R.pipeline() as pipe: pipe.rpush(...); pipe.ltrim(...)".
PipelineCommands(new_history_items) ==
    << [cmd |-> "RPUSH", items |-> new_history_items, start |-> 0, stop |-> 0],
       [cmd |-> "LTRIM", items |-> <<>>, start |-> 0 - MAX_MESSAGES, stop |-> 0 - 1] >>

\* Variant: pipeline(transaction=False), whose commands Redis runs one by one.
TransactionUnitOff(queue) == 1

\* pipeline() is pipeline(transaction=True): pipe.execute() sends the queue as one
\* MULTI ... EXEC block, which Redis runs with no other client's command between.
TransactionUnit(queue) == Len(queue)

ApplyCommand(list, c) ==
    IF c.cmd = "RPUSH" THEN RPush(list, c.items) ELSE LTrim(list, c.start, c.stop)

RECURSIVE ApplyCommands(_, _)
ApplyCommands(list, commands) ==
    IF commands = <<>> THEN list
    ELSE ApplyCommands(ApplyCommand(list, Head(commands)), Tail(commands))

CommandNames(commands) == [i \in DOMAIN commands |-> commands[i].cmd]

\* From the entry of send_message to the generate_content request.
SendMessage(h, session_id, new_prompt) ==
    /\ CanStart(h)
    /\ served' = [served EXCEPT ![h] = @ + 1]
    /\ UNCHANGED <<R, redis, env>>
    /\ LET c == [NewCall("send_message", session_id) EXCEPT !.new_prompt = new_prompt]
           serialized_history == LRange(redis[RedisKey(session_id)], 0, 0 - 1)
       IN  IF StoreIsNone
           THEN call' = [call EXCEPT ![h] =
                    [c EXCEPT !.pc = "returned", !.result = ServiceUnavailable]]
           ELSE IF ~reachable
           THEN call' = [call EXCEPT ![h] =
                    [c EXCEPT !.pc = "raised", !.result = "ConnectionError",
                              !.trace = <<"LRANGE">>]]
           ELSE IF DeserializeRaises(serialized_history)
           THEN call' = [call EXCEPT ![h] =
                    [c EXCEPT !.pc = "raised", !.result = "DeserializationError",
                              !.serialized_history = serialized_history,
                              !.trace = <<"LRANGE">>]]
           ELSE call' = [call EXCEPT ![h] =
                    [c EXCEPT !.pc = "submitted",
                              !.serialized_history = serialized_history,
                              !.contents_to_send =
                                  FilterRoles(_deserialize_content(serialized_history))
                                      \o <<Content("user", <<new_prompt>>)>>,
                              !.trace = <<"LRANGE", "generate_content">>]]

\* generate_content returns response.text: the exchange is encoded and queued.
GenerateContentReturns(h, response_text) ==
    /\ call[h].pc = "submitted"
    /\ call' = [call EXCEPT ![h] =
            [@ EXCEPT !.pc = "executing",
                      !.response_text = response_text,
                      !.queue = PipelineCommands(_serialize_content(
                          << Content("user", <<call[h].new_prompt>>),
                             Content("model", <<response_text>>) >>))]]
    /\ UNCHANGED <<R, redis, served, env>>

\* Variant: the prompt is stored before the Gemini call is known to have succeeded.
GenerateContentFailsAfterWrite(h) ==
    /\ call[h].pc = "submitted"
    /\ call' = [call EXCEPT ![h] = [@ EXCEPT !.pc = "raised", !.result = "GatewayFailure"]]
    /\ redis' = [redis EXCEPT ![RedisKey(call[h].session_id)] =
           RPush(@, _serialize_content(<<Content("user", <<call[h].new_prompt>>)>>))]
    /\ UNCHANGED <<R, served, env>>

\* Variant: the failed Gemini call is tried again.
GenerateContentFailsRetry(h) ==
    /\ call[h].pc = "submitted"
    /\ call' = [call EXCEPT ![h] = [@ EXCEPT !.trace = @ \o <<"generate_content">>]]
    /\ UNCHANGED <<R, redis, served, env>>

\* generate_content raises: "except Exception as e: ... raise e".
GenerateContentFails(h) ==
    /\ call[h].pc = "submitted"
    /\ call' = [call EXCEPT ![h] = [@ EXCEPT !.pc = "raised", !.result = "GatewayFailure"]]
    /\ UNCHANGED <<R, redis, served, env>>

\* pipe.execute(): Redis runs the next unit of the queue; after the last one
\* send_message returns response_text.
\* When Redis does not answer, execute() raises and "except Exception" re-raises.
PipeExecute(h) ==
    /\ call[h].pc = "executing"
    /\ LET key  == RedisKey(call[h].session_id)
           n    == TransactionUnit(call[h].queue)
           unit == SubSeq(call[h].queue, 1, n)
           rest == SubSeq(call[h].queue, n + 1, Len(call[h].queue))
       IN  IF ~reachable
           THEN /\ call' = [call EXCEPT ![h] =
                       [@ EXCEPT !.pc = "raised", !.result = "ConnectionError"]]
                /\ UNCHANGED redis
           ELSE /\ redis' = [redis EXCEPT ![key] = ApplyCommands(@, unit)]
                /\ call' = [call EXCEPT ![h] =
                       [@ EXCEPT !.queue = rest,
                                 !.trace = @ \o CommandNames(unit),
                                 !.pc = IF rest = <<>> THEN "returned" ELSE "executing",
                                 !.result = IF rest = <<>> THEN call[h].response_text
                                            ELSE ""]]
    /\ UNCHANGED <<R, served, env>>

-----------------------------------------------------------------------------
(* GeminiChatManager.reset_chat_session *)

\* Variant: FLUSHDB instead of DEL redis_key.
ResetChatSessionFlushAll(h, session_id) ==
    /\ CanStart(h)
    /\ served' = [served EXCEPT ![h] = @ + 1]
    /\ UNCHANGED <<R, env>>
    /\ call' = [call EXCEPT ![h] =
           [NewCall("reset_chat_session", session_id) EXCEPT
               !.pc = "returned",
               !.result = (~StoreIsNone /\ DelCount(redis[RedisKey(session_id)]) > 0),
               !.trace = IF StoreIsNone THEN <<>> ELSE <<"DEL">>]]
    /\ redis' = IF StoreIsNone THEN redis ELSE [k \in Keys |-> <<>>]

ResetChatSession(h, session_id) ==
    /\ CanStart(h)
    /\ served' = [served EXCEPT ![h] = @ + 1]
    /\ UNCHANGED <<R, env>>
    /\ LET c   == NewCall("reset_chat_session", session_id)
           key == RedisKey(session_id)
       IN  IF StoreIsNone
           THEN /\ call' = [call EXCEPT ![h] = [c EXCEPT !.pc = "returned", !.result = FALSE]]
                /\ UNCHANGED redis
           ELSE IF ~reachable
           THEN /\ call' = [call EXCEPT ![h] =
                       [c EXCEPT !.pc = "raised", !.result = "ConnectionError",
                                 !.trace = <<"DEL">>]]
                /\ UNCHANGED redis
           ELSE /\ call' = [call EXCEPT ![h] =
                       [c EXCEPT !.pc = "returned",
                                 !.result = (DelCount(redis[key]) > 0),
                                 !.trace = <<"DEL">>]]
                /\ redis' = [redis EXCEPT ![key] = <<>>]

-----------------------------------------------------------------------------
(* GeminiChatManager.get_chat_history_from_redis *)

\* Variant: an empty history instead of the sentinel entry.
RedisNotConnectedEmpty == <<>>

RedisNotConnected == <<[role |-> "system", text |-> "Erro: Redis nao esta conectado."]>>

\* for content in history_content: skip role "system", else {"role", "text"}
FormatHistory(history_content) ==
    LET kept == SelectSeq(history_content, LAMBDA content : content.role # "system")
    IN  [i \in DOMAIN kept |->
            [role |-> kept[i].role,
             text |-> IF Len(kept[i].parts) > 0 /\ Truthy(kept[i].parts[1])
                      THEN kept[i].parts[1] ELSE ""]]

GetChatHistory(h, session_id) ==
    /\ CanStart(h)
    /\ served' = [served EXCEPT ![h] = @ + 1]
    /\ UNCHANGED <<R, redis, env>>
    /\ LET c == NewCall("get_chat_history_from_redis", session_id)
           serialized_history == LRange(redis[RedisKey(session_id)], 0, 0 - 1)
       IN  IF StoreIsNone
           THEN call' = [call EXCEPT ![h] =
                    [c EXCEPT !.pc = "returned", !.result = RedisNotConnected]]
           ELSE IF ~reachable
           THEN call' = [call EXCEPT ![h] =
                    [c EXCEPT !.pc = "raised", !.result = "ConnectionError",
                              !.trace = <<"LRANGE">>]]
           ELSE IF DeserializeRaises(serialized_history)
           THEN call' = [call EXCEPT ![h] =
                    [c EXCEPT !.pc = "raised", !.result = "DeserializationError",
                              !.serialized_history = serialized_history,
                              !.trace = <<"LRANGE">>]]
           ELSE call' = [call EXCEPT ![h] =
                    [c EXCEPT !.pc = "returned",
                              !.serialized_history = serialized_history,
                              !.result = FormatHistory(_deserialize_content(serialized_history)),
                              !.trace = <<"LRANGE">>]]

-----------------------------------------------------------------------------

Next ==
    \/ \E h \in Handlers, s \in SessionIds : \E p \in PromptsOf(h) : SendMessage(h, s, p)
    \/ \E h \in Handlers : \E t \in ResponsesOf(h) : GenerateContentReturns(h, t)
    \/ \E h \in Handlers : GenerateContentFails(h)
    \/ \E h \in Handlers : PipeExecute(h)
    \/ \E h \in Handlers, s \in SessionIds : ResetChatSession(h, s)
    \/ \E h \in Handlers, s \in SessionIds : GetChatHistory(h, s)

Spec == Init /\ [][Next]_vars

-----------------------------------------------------------------------------
(* Sessions whose logs were written by send_message alone *)

\* The logs that 0, 1, 9 and 10 exchanges on an empty session leave.
InitFromEmpty ==
    /\ R \in {"client", "None"}
    /\ redis \in [Keys -> {Exchanges(0), Exchanges(1), Exchanges(9), Exchanges(10)}]
    /\ call = [h \in Handlers |-> NoCall]
    /\ served = [h \in Handlers |-> 0]
    /\ reachable = (R = "client")
    /\ client = "client"
    /\ codec = NoCodec

SpecFromEmpty == InitFromEmpty /\ [][Next]_vars

-----------------------------------------------------------------------------
(* A Redis server that goes away and comes back while the manager lives *)

\* __init__ with Redis up or down at the PING.
InitOutage ==
    /\ reachable \in BOOLEAN
    /\ R = (IF reachable THEN "client" ELSE "None")
    /\ redis \in [Keys -> {<<>>, Exchanges(1)}]
    /\ call = [h \in Handlers |-> NoCall]
    /\ served = [h \in Handlers |-> 0]
    /\ client = "client"
    /\ codec = NoCodec

\* The server's lists outlive the outage; nothing in the manager is told of it.
RedisGoesDown ==
    /\ reachable
    /\ reachable' = FALSE
    /\ UNCHANGED <<R, redis, call, served, client, codec>>

RedisComesUp ==
    /\ ~reachable
    /\ reachable' = TRUE
    /\ UNCHANGED <<R, redis, call, served, client, codec>>

NextOutage == Next \/ RedisGoesDown \/ RedisComesUp

SpecOutage == InitOutage /\ [][NextOutage]_vars

-----------------------------------------------------------------------------
(* main.py: POST /chat in front of send_message_with_history *)

\* resposta_gemini.startswith("Erro"), over the texts of the model.
ErroTexts == {ServiceUnavailable, "Erro: pedido nao encontrado"}
StartsWithErro(text) == text \in ErroTexts

HttpPerguntas == {"", "quero ajuda"}
HttpSessionIds == {"", "s1"}
HttpResponses == {"claro!", "Erro: pedido nao encontrado"}

\* chat_with_gemini up to the call of send_message_with_history: the client
\* check, then the validation of the two fields, each ending the request with
\* an HTTPException of the given status.
ChatWithGemini(h, pergunta, session_id) ==
    /\ CanStart(h)
    /\ LET rejected(status) ==
               /\ served' = [served EXCEPT ![h] = @ + 1]
               /\ call' = [call EXCEPT ![h] =
                      [NewCall("chat_with_gemini", session_id) EXCEPT
                          !.new_prompt = pergunta, !.pc = "raised", !.result = status]]
               /\ UNCHANGED <<R, redis, env>>
       IN  IF client = "None" THEN rejected(500)
           ELSE IF pergunta = "" \/ session_id = "" THEN rejected(400)
           ELSE SendMessage(h, session_id, pergunta)

\* The status of the answer to a POST /chat whose invocation c has ended:
\* "if resposta_gemini.startswith("Erro")" and the two except clauses.
ChatStatus(c) ==
    IF c.op = "chat_with_gemini" THEN c.result
    ELSE IF c.pc = "raised" THEN 500
    ELSE IF StartsWithErro(c.result) THEN 500
    ELSE 200

\* The module-level "try: api_key = load_api_key(KEY_FILE_PATH); client =
\* genai.Client(...)  except Exception: ..." leaves client as None when the load
\* raises.  As the repository stands KEY_FILE_PATH is not bound (its assignment,
\* line 15, is commented out), so the load raises on every start; "client" is
\* the start with that line in force and a readable key file.
HttpInit ==
    /\ R \in {"client", "None"}
    /\ redis \in [Keys -> {<<>>, Exchanges(1), Exchanges(10)}]
    /\ call = [h \in Handlers |-> NoCall]
    /\ served = [h \in Handlers |-> 0]
    /\ reachable = (R = "client")
    /\ client \in {"client", "None"}
    /\ codec = NoCodec

HttpNext ==
    \/ \E h \in Handlers, p \in HttpPerguntas, s \in HttpSessionIds : ChatWithGemini(h, p, s)
    \/ \E h \in Handlers : \E t \in HttpResponses : GenerateContentReturns(h, t)
    \/ \E h \in Handlers : GenerateContentFails(h)
    \/ \E h \in Handlers : PipeExecute(h)

SpecHttp == HttpInit /\ [][HttpNext]_vars

-----------------------------------------------------------------------------
(* The codec alone: a list of valid messages is encoded, then decoded *)

\* Longest list of messages taken through the codec.
MaxCodecLen == 2

Roles == {"user", "model", "system"}
CodecTexts == {"", "oi", "Erro: sem estoque"}
Messages == {Content(role, <<text>>) : role \in Roles, text \in CodecTexts}

CodecInit ==
    /\ R = "client"
    /\ redis = [k \in Keys |-> <<>>]
    /\ call = [h \in Handlers |-> NoCall]
    /\ served = [h \in Handlers |-> 0]
    /\ reachable = TRUE
    /\ client = "client"
    /\ \E n \in 0..MaxCodecLen : \E contents \in [1..n -> Messages] :
           codec = [NoCodec EXCEPT !.stage = "input", !.contents = contents]

Encode ==
    /\ codec.stage = "input"
    /\ codec' = [codec EXCEPT !.stage = "encoded",
                              !.serialized = _serialize_content(codec.contents)]
    /\ UNCHANGED <<R, redis, call, served, reachable, client>>

Decode ==
    /\ codec.stage = "encoded"
    /\ codec' = IF DeserializeRaises(codec.serialized)
                THEN [codec EXCEPT !.stage = "raised"]
                ELSE [codec EXCEPT !.stage = "decoded",
                                   !.decoded = _deserialize_content(codec.serialized)]
    /\ UNCHANGED <<R, redis, call, served, reachable, client>>

CodecNext == Encode \/ Decode

SpecCodec == CodecInit /\ [][CodecNext]_vars

-----------------------------------------------------------------------------
(* Properties *)

KeyOf(h) == RedisKey(call[h].session_id)

IsSend(h) == call[h].op = "send_message"
IsReset(h) == call[h].op = "reset_chat_session"
IsGet(h) == call[h].op = "get_chat_history_from_redis"

\* The two entries an exchange stores.
Pair(prompt, response) == <<Stored("user", prompt), Stored("model", response)>>

\* C1: every log in Redis, and every log an LRANGE of any handler has returned,
\* has at most 20 entries; the appended-but-untrimmed log is never visible.
C1_ObservedBound ==
    /\ \A k \in Keys : Len(redis[k]) <= 20
    /\ \A h \in Handlers : Len(call[h].serialized_history) <= 20

\* A reader got the 20-entry log of a session after another handler's exchange
\* had pushed the log over the bound and trimmed it.
C1_Witness ==
    \E h, g \in Handlers :
        /\ h # g /\ IsGet(h) /\ IsSend(g) /\ call[g].pc = "returned" /\ R = "client"
        /\ call[h].session_id = call[g].session_id
        /\ Len(call[h].serialized_history) = 20
        /\ call[h].serialized_history[1] = Stored("user", "u2")
        /\ call[h].serialized_history[20] = Stored("model", call[g].response_text)

\* C2: the step in which generate_content fails ends the call by raising, and
\* changes no log; the failed call has issued no RPUSH and no LTRIM.
C2_NoWriteOnFailure ==
    [][\A h \in Handlers :
          (call[h].pc = "submitted" /\ call'[h].pc = "raised")
              => /\ redis' = redis
                 /\ call'[h].result = "GatewayFailure"
                 /\ call'[h].trace = <<"LRANGE", "generate_content">>]_vars

\* A call failed at the gateway on a full log, and the log is as the call read it.
C2_Witness ==
    \E h \in Handlers :
        /\ IsSend(h) /\ call[h].pc = "raised" /\ call[h].result = "GatewayFailure"
        /\ Len(call[h].serialized_history) = 20
        /\ redis[KeyOf(h)] = call[h].serialized_history

\* C3: in every log, a prompt entry written by a handler is directly followed by
\* an answer entry of the same handler, and an answer entry of a handler is
\* directly preceded by a prompt entry of that handler (unless the trim has cut
\* the log right before it).
C3_ExchangeIndivisible ==
    \A k \in Keys : \A i \in DOMAIN redis[k] : \A h \in Handlers :
        /\ redis[k][i] \in {Stored("user", p) : p \in PromptsOf(h)}
              => /\ i < Len(redis[k])
                 /\ redis[k][i + 1] \in {Stored("model", t) : t \in ResponsesOf(h)}
        /\ redis[k][i] \in {Stored("model", t) : t \in ResponsesOf(h)}
              => \/ i = 1
                 \/ redis[k][i - 1] \in {Stored("user", p) : p \in PromptsOf(h)}

\* Two calls on one session overlapped (both read the same log before either
\* appended) and both exchanges are in the log.
C3_Witness ==
    \E h, g \in Handlers :
        /\ h # g /\ IsSend(h) /\ IsSend(g)
        /\ call[h].pc = "returned" /\ call[g].pc = "returned" /\ R = "client"
        /\ call[h].session_id = call[g].session_id
        /\ call[h].serialized_history = call[g].serialized_history
        /\ Len(redis[KeyOf(h)]) = Len(call[h].serialized_history) + 4

\* C4: the append on a log that holds exactly 20 entries leaves 20 entries: the
\* former entries 3..20, in order, then the new prompt and the new answer.
C4_OldestDrop ==
    [][\A h \in Handlers :
          (call[h].pc = "executing" /\ call'[h].pc = "returned"
                /\ Len(redis[KeyOf(h)]) = 20)
              => /\ Len(redis'[KeyOf(h)]) = 20
                 /\ \A i \in 1..18 : redis'[KeyOf(h)][i] = redis[KeyOf(h)][i + 2]
                 /\ redis'[KeyOf(h)][19] = Stored("user", call[h].new_prompt)
                 /\ redis'[KeyOf(h)][20] = Stored("model", call[h].response_text)]_vars

\* A call found ten exchanges and left the last nine followed by its own.
C4_Witness ==
    \E h \in Handlers :
        /\ IsSend(h) /\ call[h].pc = "returned" /\ R = "client"
        /\ call[h].serialized_history = Exchanges(10)
        /\ redis[KeyOf(h)] = SubSeq(Exchanges(10), 3, 20)
                                \o Pair(call[h].new_prompt, call[h].response_text)

\* C5: the step that completes a successful send_message returns the text the
\* gateway gave and appends {user, prompt}, {model, text} to the log (of which
\* the last 20 entries stay); an empty log becomes exactly these two entries.
C5_AppendsExchange ==
    [][\A h \in Handlers :
          (call[h].pc = "executing" /\ call'[h].pc = "returned")
              => LET old == redis[KeyOf(h)]
                     new == old \o Pair(call[h].new_prompt, call[h].response_text)
                 IN  /\ call'[h].result = call[h].response_text
                     /\ call[h].response_text \in ResponsesOf(h)
                     /\ Len(old) <= 18 => redis'[KeyOf(h)] = new
                     /\ Len(old) > 18 =>
                            redis'[KeyOf(h)] = SubSeq(new, Len(new) - 19, Len(new))
                     /\ old = <<>> =>
                            redis'[KeyOf(h)] = << Stored("user", call[h].new_prompt),
                                                 Stored("model", call'[h].result) >>]_vars

\* A call on an empty session returned the gateway's text and the log is its exchange.
C5_Witness ==
    \E h \in Handlers :
        /\ IsSend(h) /\ call[h].pc = "returned" /\ R = "client"
        /\ call[h].serialized_history = <<>>
        /\ call[h].result \in ResponsesOf(h)
        /\ redis[KeyOf(h)] = Pair(call[h].new_prompt, call[h].result)

\* C6: in degraded mode every send_message has returned the service-unavailable
\* text at once, having issued no Redis command and no Gemini call, and no log
\* ever changes.
C6_DegradedSend ==
    /\ [](R = "None" =>
            \A h \in Handlers :
                IsSend(h) => /\ call[h].pc = "returned"
                             /\ call[h].result = ServiceUnavailable
                             /\ call[h].trace = <<>>)
    /\ [][R = "None" => redis' = redis]_vars

C6_Witness ==
    \E h \in Handlers :
        /\ R = "None" /\ IsSend(h) /\ call[h].pc = "returned"
        /\ call[h].result = ServiceUnavailable
        /\ redis[KeyOf(h)] # <<>>

\* C7: in degraded mode every get_history has returned, without raising, one
\* entry of role system whose text says that Redis is not connected.
C7_DegradedHistory ==
    R = "None" =>
        \A h \in Handlers :
            IsGet(h) => /\ call[h].pc = "returned"
                        /\ Len(call[h].result) = 1
                        /\ call[h].result[1].role = "system"
                        /\ call[h].result[1].text = "Erro: Redis nao esta conectado."
                        /\ call[h].trace = <<>>

C7_Witness ==
    \E h \in Handlers :
        /\ R = "None" /\ IsGet(h) /\ call[h].pc = "returned"
        /\ Len(call[h].result) = 1
        /\ redis[KeyOf(h)] # <<>>

\* C8: a reset_chat_session step returns TRUE exactly when Redis is connected
\* and the session's log is not empty, and then leaves that log empty; when it
\* returns FALSE no log changes.  No other session's log changes either way.
C8_Reset ==
    [][\A h \in Handlers :
          (served'[h] = served[h] + 1 /\ call'[h].op = "reset_chat_session")
              => LET k == RedisKey(call'[h].session_id)
                 IN  /\ call'[h].pc = "returned"
                     /\ call'[h].result = (R = "client" /\ Len(redis[k]) > 0)
                     /\ call'[h].result => redis'[k] = <<>>
                     /\ ~call'[h].result => redis' = redis
                     /\ \A j \in Keys \ {k} : redis'[j] = redis[j]]_vars

\* A reset returned TRUE, and a later read of the session by the other handler
\* found it empty.
C8_Witness ==
    \E h, g \in Handlers :
        /\ h # g /\ R = "client"
        /\ IsReset(h) /\ call[h].result = TRUE /\ served[h] = 1
        /\ IsGet(g) /\ call[g].session_id = call[h].session_id /\ served[g] = 1
        /\ call[g].pc = "returned" /\ call[g].result = <<>>
        /\ redis[KeyOf(h)] = <<>>
        /\ \A k \in Keys \ {KeyOf(h)} : redis[k] # <<>>

\* a is b with some entries left out, the others in the order of b.
RECURSIVE IsSubseq(_, _)
IsSubseq(a, b) ==
    IF a = <<>> THEN TRUE
    ELSE IF b = <<>> THEN FALSE
    ELSE IF Head(a) = Head(b) THEN IsSubseq(Tail(a), Tail(b))
    ELSE IsSubseq(a, Tail(b))

\* What a stored record shows: its role and the text of its first part.
Shown(item) ==
    <<item.role, IF Len(item.parts) > 0 /\ item.parts[1] \notin {None, ""}
                 THEN item.parts[1] ELSE "">>

HasSystem(log) == \E i \in DOMAIN log : log[i].role = "system"

\* C9: the list submitted to the gateway is entries of the log as read, none of
\* role system, in the log's order, followed by the new prompt; a get_history
\* result on a connected store is entries of the log as read, none of role
\* system, in the log's order.
C9_RoleFilter ==
    \A h \in Handlers :
        /\ (IsSend(h) /\ call[h].pc \in {"submitted", "executing"})
              => LET sent == call[h].contents_to_send
                     hist == SubSeq(sent, 1, Len(sent) - 1)
                 IN  /\ Len(sent) >= 1
                     /\ sent[Len(sent)] = [role |-> "user", parts |-> <<call[h].new_prompt>>]
                     /\ \A i \in DOMAIN hist : hist[i].role # "system"
                     /\ IsSubseq([i \in DOMAIN hist |-> <<hist[i].role, hist[i].parts>>],
                                 [i \in DOMAIN call[h].serialized_history |->
                                     <<call[h].serialized_history[i].role,
                                       call[h].serialized_history[i].parts>>])
        /\ (IsGet(h) /\ call[h].pc = "returned" /\ R = "client")
              => /\ \A i \in DOMAIN call[h].result : call[h].result[i].role # "system"
                 /\ IsSubseq([i \in DOMAIN call[h].result |->
                                     <<call[h].result[i].role, call[h].result[i].text>>],
                                 [i \in DOMAIN call[h].serialized_history |->
                                     Shown(call[h].serialized_history[i])])

\* Both operations have read a log that holds system entries, and kept the rest.
C9_Witness ==
    \E h, g \in Handlers :
        /\ IsSend(h) /\ call[h].pc = "submitted"
        /\ HasSystem(call[h].serialized_history)
        /\ Len(call[h].contents_to_send) = Len(call[h].serialized_history) - 1
        /\ IsGet(g) /\ call[g].pc = "returned" /\ R = "client"
        /\ HasSystem(call[g].serialized_history)
        /\ Len(call[g].result) = Len(call[g].serialized_history) - 2

\* C10: an operation that has read a log holding a record that is not in the
\* expected encoding does not end by raising.
C10_MalformedSkipped ==
    \A h \in Handlers :
        (\E i \in DOMAIN call[h].serialized_history :
                ~call[h].serialized_history[i].json)
            => call[h].pc # "raised"

\* C11 as stated: after one more exchange on a log of ten exchanges, the first
\* entry is the model answer of the original second exchange.
C11_FirstIsSecondAnswer ==
    [][\A h \in Handlers :
          (call[h].pc = "executing" /\ call'[h].pc = "returned"
                /\ redis[KeyOf(h)] = Exchanges(10))
              => /\ Len(redis'[KeyOf(h)]) = 20
                 /\ redis'[KeyOf(h)][1] = Stored("model", ModelText[2])]_vars

\* C11 amended: after one more exchange on a log of ten exchanges the log has
\* 20 entries and its first entry is the user message of the original second
\* exchange (the whole first exchange, and nothing else, is dropped).
C11_FirstIsSecondPrompt ==
    [][\A h \in Handlers :
          (call[h].pc = "executing" /\ call'[h].pc = "returned"
                /\ redis[KeyOf(h)] = Exchanges(10))
              => /\ Len(redis'[KeyOf(h)]) = 20
                 /\ redis'[KeyOf(h)][1] = Stored("user", UserText[2])
                 /\ redis'[KeyOf(h)][2] = Stored("model", ModelText[2])]_vars

C11_Witness ==
    \E h \in Handlers :
        /\ IsSend(h) /\ call[h].pc = "returned" /\ R = "client"
        /\ call[h].serialized_history = Exchanges(10)
        /\ Len(redis[KeyOf(h)]) = 20
        /\ redis[KeyOf(h)][1] = Stored("user", "u2")
        /\ redis[KeyOf(h)][20] = Stored("model", call[h].response_text)

\* C12: a step changes the log of a session only if it is a step of a handler
\* whose invocation is for that session, and what an invocation reads is the
\* log of its own session.
C12_SessionsIndependent ==
    [][/\ \A s \in SessionIds :
            redis'[<<"chat:", s>>] # redis[<<"chat:", s>>]
                => \E h \in Handlers :
                       /\ (call'[h] # call[h] \/ served'[h] # served[h])
                       /\ call'[h].session_id = s
       /\ \A h \in Handlers :
            (served'[h] = served[h] + 1 /\ call'[h].trace # <<>>
                  /\ call'[h].trace[1] = "LRANGE" /\ call'[h].pc # "raised")
                => call'[h].serialized_history = redis[<<"chat:", call'[h].session_id>>]]_vars

\* One handler has appended to a session and the other has reset the other
\* session; each log shows only the operation made on it.
C12_Witness ==
    \E h, g \in Handlers :
        /\ IsSend(h) /\ call[h].pc = "returned" /\ R = "client"
        /\ IsReset(g) /\ call[g].result = TRUE
        /\ call[g].session_id # call[h].session_id
        /\ redis[KeyOf(g)] = <<>>
        /\ redis[KeyOf(h)] = call[h].serialized_history
                                \o Pair(call[h].new_prompt, call[h].response_text)
        /\ call[h].serialized_history # <<>>

\* C13: decoding what was encoded never raises and gives back the list of
\* messages: same length, and at every position the same role and text.
C13_RoundTrip ==
    /\ codec.stage # "raised"
    /\ codec.stage \in {"encoded", "decoded"} => Len(codec.serialized) = Len(codec.contents)
    /\ codec.stage = "decoded"
          => /\ Len(codec.decoded) = Len(codec.contents)
             /\ \A i \in DOMAIN codec.contents :
                    /\ codec.decoded[i].role = codec.contents[i].role
                    /\ codec.decoded[i].parts = codec.contents[i].parts

\* A system message and a message with empty text came back in their places.
C13_Witness ==
    /\ codec.stage = "decoded"
    /\ Len(codec.contents) = 2
    /\ codec.contents[1] = [role |-> "system", parts |-> <<"oi">>]
    /\ codec.contents[2] = [role |-> "model", parts |-> <<"">>]
    /\ codec.decoded = codec.contents

IsChat(h) == call[h].op \in {"chat_with_gemini", "send_message"}

\* C14: a POST /chat with an empty pergunta_cliente or session_id is answered
\* 400 and has issued no Redis command and no Gemini call.
C14_EmptyFieldsRejected ==
    \A h \in Handlers :
        (IsChat(h) /\ (call[h].new_prompt = "" \/ call[h].session_id = ""))
            => /\ Finished(h)
               /\ call[h].trace = <<>>
               /\ ChatStatus(call[h]) = 400

C15_StepOrder ==
    \A h \in Handlers :
        (IsSend(h) /\ R = "client")
            => /\ call[h].trace \in { <<"LRANGE">>,
                                       <<"LRANGE", "generate_content">>,
                                       <<"LRANGE", "generate_content", "RPUSH", "LTRIM">> }
               /\ call[h].pc \in {"submitted", "executing"}
                     => call[h].trace = <<"LRANGE", "generate_content">>
               /\ (call[h].pc = "raised" /\ call[h].result = "GatewayFailure")
                     => call[h].trace = <<"LRANGE", "generate_content">>
               /\ Len(call[h].trace) = 4
                     => /\ call[h].pc = "returned"
                        /\ call[h].response_text \in ResponsesOf(h)
                        /\ call[h].result = call[h].response_text

\* One call has gone through all its steps, another has ended at the failed
\* Gemini call.
C15_Witness ==
    \E h, g \in Handlers :
        /\ IsSend(h) /\ call[h].pc = "returned" /\ Len(call[h].trace) = 4
        /\ IsSend(g) /\ call[g].pc = "raised" /\ call[g].result = "GatewayFailure"
        /\ call[g].trace = <<"LRANGE", "generate_content">>

AllJson(log) == \A i \in DOMAIN log : log[i].json

HasTextless(log, which) ==
    \E i \in DOMAIN log : \E p \in DOMAIN log[i].parts : log[i].parts[p] \in which

\* C16: an operation that has read a log of well-formed records, one of them
\* with a null or an absent text, does not end by raising, and get_history
\* shows that record with the text "".
C16_TextlessDecoded ==
    \A h \in Handlers :
        (R = "client" /\ AllJson(call[h].serialized_history)
              /\ HasTextless(call[h].serialized_history, {None, Absent}))
            => /\ ~(call[h].pc = "raised" /\ call[h].result = "DeserializationError")
               /\ (IsGet(h) /\ call[h].pc = "returned")
                     => \A i \in DOMAIN call[h].result : call[h].result[i].text # None

\* C17: every log has even length, its odd entries are of role user and its even
\* entries of role model; hence no entry of role system is stored.
C17_Alternating ==
    \A k \in Keys :
        /\ Len(redis[k]) % 2 = 0
        /\ \A i \in DOMAIN redis[k] :
              /\ redis[k][i].json
              /\ redis[k][i].role = (IF i % 2 = 1 THEN "user" ELSE "model")

\* Both handlers have appended to a full log, which was trimmed twice.
C17_Witness ==
    \E h, g \in Handlers :
        /\ h # g /\ IsSend(h) /\ IsSend(g) /\ call[h].session_id = call[g].session_id
        /\ call[h].pc = "returned" /\ call[g].pc = "returned" /\ R = "client"
        /\ Len(redis[KeyOf(h)]) = 20
        /\ redis[KeyOf(h)][1] = Stored("user", "u3")
        /\ redis[KeyOf(h)][20].role = "model"

\* C19: when a send_message that had read a non-empty history comes to append
\* after the other handler's reset of the session has returned TRUE and emptied
\* the log, the append is made all the same: the log becomes exactly the call's
\* two entries, the call returns the gateway's text, and what it had submitted
\* was the history from before the reset plus the prompt.
C19_AppendAfterReset ==
    [][\A h, g \in Handlers :
          (/\ h # g
           /\ call[h].pc = "executing" /\ call'[h].pc = "returned"
           /\ IsReset(g) /\ call[g].result = TRUE
           /\ call[g].session_id = call[h].session_id
           /\ call[h].serialized_history # <<>>
           /\ redis[KeyOf(h)] = <<>>)
              => /\ redis'[KeyOf(h)] = << Stored("user", call[h].new_prompt),
                                          Stored("model", call[h].response_text) >>
                 /\ call'[h].result = call[h].response_text
                 /\ Len(call[h].contents_to_send) =
                        1 + Cardinality({i \in DOMAIN call[h].serialized_history :
                               call[h].serialized_history[i].role \in {"user", "model"}})]_vars

\* Both calls have finished: the reset returned TRUE, the send had read ten
\* exchanges, and the log holds the send's exchange alone.
C19_Witness ==
    \E h, g \in Handlers :
        /\ h # g /\ R = "client"
        /\ IsSend(h) /\ call[h].pc = "returned"
        /\ IsReset(g) /\ call[g].result = TRUE
        /\ call[g].session_id = call[h].session_id
        /\ call[h].serialized_history = Exchanges(10)
        /\ Len(call[h].contents_to_send) = 21
        /\ redis[KeyOf(h)] = Pair(call[h].new_prompt, call[h].response_text)

\* C20: no step changes self.R.  An invocation started by a manager whose R is
\* None gets the degraded-mode result without a Redis command, also while Redis
\* answers; an invocation started by a connected manager while Redis does not
\* answer ends by raising ConnectionError, not with a degraded-mode result.
C20_ModeFixed ==
    [][/\ R' = R
       /\ \A h \in Handlers :
            served'[h] = served[h] + 1
                => /\ R = "None"
                        => /\ call'[h].pc = "returned"
                           /\ call'[h].trace = <<>>
                           /\ call'[h].op = "send_message"
                                 => call'[h].result = ServiceUnavailable
                           /\ call'[h].op = "reset_chat_session"
                                 => call'[h].result = FALSE
                           /\ call'[h].op = "get_chat_history_from_redis"
                                 => call'[h].result = RedisNotConnected
                   /\ (R = "client" /\ ~reachable)
                        => /\ call'[h].pc = "raised"
                           /\ call'[h].result = "ConnectionError"]_vars

\* A connected manager has completed an exchange, and then, with Redis gone,
\* its get_history has raised.
C20_Witness ==
    \E h, g \in Handlers :
        /\ h # g /\ R = "client" /\ ~reachable
        /\ IsGet(h) /\ call[h].pc = "raised" /\ call[h].result = "ConnectionError"
        /\ IsSend(g) /\ call[g].pc = "returned" /\ Len(call[g].trace) = 4

====
